---- MODULE Spec2Model ----
(***************************************************************************)
(* Model of src/main.py: TicketUpdater.process_csv and                     *)
(* TicketUpdater.update_ticket, the batch loop that reads ticket           *)
(* identifiers from a CSV file, checks each ticket with a GET request and  *)
(* triggers the update with a PUT request.                                 *)
(*                                                                         *)
(* Strings whose characters matter (CSV cells, identifiers, the report     *)
(* file) are sequences of one-character strings.  The HTTP server, the     *)
(* file system and the installed requests library are the environment.     *)
(***************************************************************************)
EXTENDS Integers, Sequences, FiniteSets, TLC

VARIABLES
    csvFile,            \* the CSV file at csv_file_path
    errorFile,          \* the directory logs and the file logs/error_tickets.txt
    jsonErrIsReqExc,    \* installed requests: is its JSONDecodeError a RequestException
    success_count,      \* self.success_count
    failure_count,      \* self.failure_count
    error_tickets,      \* self.error_tickets
    ticket_ids,         \* local ticket_ids of process_csv
    index,              \* loop variable index of process_csv (1-based)
    pc,                 \* position in process_csv / update_ticket
    trace,              \* history: requests sent, sleeps, ends of update_ticket
    log,                \* history: the logging.info / logging.error calls
    fileWrites          \* history: number of successful open(error_log, 'w')

VARIABLES
    config,             \* config.json as load_config finds it
    logging,            \* the root logger: its handlers, level and format
    mainPc,             \* position in main
    mainLog             \* history: the logging calls of main, load_config and
                        \* setup_logging, each with the sinks that received it

\* the state of main around the TicketUpdater
mainVars == <<config, logging, mainPc, mainLog>>

vars == <<csvFile, errorFile, jsonErrIsReqExc, success_count, failure_count,
          error_tickets, ticket_ids, index, pc, trace, log, fileWrites, mainVars>>

----------------------------------------------------------------------------
(* Bounds and input alphabets *)

MaxRows == 2

\* The CSV file at csv_file_path: absent, or the rows csv.reader yields
MissingCsv == [exists |-> FALSE, rows |-> <<>>]
Csv(rows) == [exists |-> TRUE, rows |-> rows]

\* logs/error_tickets.txt: the directory logs may not exist; the file may be
\* absent or left over from an earlier run
NoDir == [dir |-> FALSE, exists |-> FALSE, text |-> <<>>]
NoFile == [dir |-> TRUE, exists |-> FALSE, text |-> <<>>]
StaleFile == [dir |-> TRUE, exists |-> TRUE, text |-> <<"z">>]
Written(text) == [dir |-> TRUE, exists |-> TRUE, text |-> text]

\* Rows as csv.reader yields them: a row is a sequence of cells, a cell a
\* sequence of characters.  A blank line of the file is the row <<>>.
RowKinds ==
    { <<>>,
      << <<>> >>,
      << <<" ">>, <<"b">> >>,
      << <<" ", "a", " ", "b", " ">> >>,
      << <<"b">>, <<"a">> >> }

HeaderRow == << <<"b">> >>

RECURSIVE SeqsUpTo(_, _)
SeqsUpTo(S, n) ==
    IF n = 0 THEN { <<>> }
    ELSE LET shorter == SeqsUpTo(S, n - 1)
         IN  shorter \cup { Append(s, x) : s \in { t \in shorter : Len(t) = n - 1 }, x \in S }

\* The file does not exist, is empty, or holds a header and up to MaxRows rows
CsvFiles ==
    { MissingCsv, Csv(<<>>) }
        \cup { Csv(<<HeaderRow>> \o rows) : rows \in SeqsUpTo(RowKinds, MaxRows) }

----------------------------------------------------------------------------
(* str.strip(): remove leading and trailing whitespace *)

Whitespace == { " ", "\t", "\n", "\r" }

RECURSIVE LStrip(_)
LStrip(s) ==
    IF s # <<>> /\ Head(s) \in Whitespace THEN LStrip(Tail(s)) ELSE s

RECURSIVE RStrip(_)
RStrip(s) ==
    IF s # <<>> /\ s[Len(s)] \in Whitespace
    THEN RStrip(SubSeq(s, 1, Len(s) - 1))
    ELSE s

\* faulty variant: lstrip() instead of strip()
StripLeftOnly(s) == LStrip(s)
Strip(s) == RStrip(LStrip(s))

\* line 106: `row and row[0].strip()`
\* faulty variant: `row and row[0]`, without strip()
RowHasIdUnstripped(row) == row # <<>> /\ row[1] # <<>>
RowHasId(row) == row # <<>> /\ Strip(row[1]) # <<>>

\* lines 103-107: skip the header, collect the stripped first columns
RECURSIVE CollectIds(_)
CollectIds(rows) ==
    IF rows = <<>> THEN <<>>
    ELSE IF RowHasId(Head(rows))
         THEN <<Strip(Head(rows)[1])>> \o CollectIds(Tail(rows))
         ELSE CollectIds(Tail(rows))

ReadIds(file) == CollectIds(Tail(file))

----------------------------------------------------------------------------
(* The HTTP server's answers, as the requests library hands them over *)

\* A JSON value of send_to_dxdb_statuscode: its type and, for numbers and
\* numeric strings, its digits.  JNone is None: the key is absent or null.
JNone == [kind |-> "none", n |-> 0]
JInt(k) == [kind |-> "int", n |-> k]
JStr(k) == [kind |-> "str", n |-> k]

\* net: "error" when session.get / session.put raises (connection error,
\* timeout); body: "object" a JSON object in which ticket and custom_fields
\* are objects or absent, "nullfield" a body on which the .get chain fails
\* (not an object, or ticket / custom_fields null), "invalid" no JSON.
NoResp == [net |-> "none", code |-> 0, body |-> "none", status |-> JNone]
NetError == [net |-> "error", code |-> 0, body |-> "none", status |-> JNone]
Answer(c, b, v) == [net |-> "ok", code |-> c, body |-> b, status |-> v]

GetResponses ==
    { NetError,
      Answer(404, "none", JNone),
      Answer(200, "invalid", JNone),
      Answer(200, "nullfield", JNone),
      Answer(200, "object", JInt(200)),
      Answer(200, "object", JNone),
      Answer(200, "object", JInt(500)),
      Answer(200, "object", JStr(200)),
      Answer(300, "object", JInt(500)) }

PutResponses ==
    { NetError,
      Answer(200, "none", JNone),
      Answer(304, "none", JNone),
      Answer(500, "none", JNone) }

\* Response.raise_for_status(): raises HTTPError for 4xx and 5xx only
RaisesForStatus(r) == r.code >= 400 /\ r.code < 600

\* Whether the call and raise_for_status (lines 65-66, 85-86) raise a
\* requests.exceptions.RequestException
RequestFails(r) == r.net = "error" \/ RaisesForStatus(r)

\* line 73: status_code == 200 (Python ==: an int or float equal to 200)
SkipStatus == 200
\* faulty variants: comparing with the string '200'; skipping also when the
\* field is absent
IsSatisfiedAsText(v) == v.kind = "str" /\ v.n = SkipStatus
IsSatisfiedOrAbsent(v) == v.kind = "none" \/ (v.kind \in {"int", "float"} /\ v.n = SkipStatus)
IsSatisfied(v) == v.kind \in {"int", "float"} /\ v.n = SkipStatus

BaseUrl == "base_url"
\* line 62
CheckUrl(id) == [base |-> BaseUrl, id |-> id, tail |-> ""]
\* line 78
UpdateUrl(id) == [base |-> BaseUrl, id |-> id, tail |-> "/?bypass_mandatory=true"]
NoUrl == [base |-> "", id |-> <<>>, tail |-> ""]

\* default of the parameter delay of process_csv
Delay == 5

----------------------------------------------------------------------------
(* History records *)

Event(op, i, url, resp, ret, secs) ==
    [op |-> op, idx |-> i, url |-> url, resp |-> resp, ret |-> ret, secs |-> secs]

Rec(level, event, id, a, b) ==
    [level |-> level, event |-> event, id |-> id, a |-> a, b |-> b]

Info(event, id, a, b) == Rec("INFO", event, id, a, b)
Error(event, id) == Rec("ERROR", event, id, 0, 0)

----------------------------------------------------------------------------
(* config.json and the root logger *)

\* config.json: absent, no JSON, unreadable for another reason, or parsed;
\* a parsed file is a JSON object or not, and holds each of the four keys
\* credentials.username, credentials.password, api.base_url, csv.file_path
\* or lacks it
ConfigFile(f, o, u, p, b, c) ==
    [file |-> f, object |-> o, username |-> u, password |-> p, base_url |-> b,
     file_path |-> c]

FullConfig == ConfigFile("ok", TRUE, TRUE, TRUE, TRUE, TRUE)

Configs ==
    { ConfigFile(f, FALSE, FALSE, FALSE, FALSE, FALSE) :
          f \in {"missing", "malformed", "unreadable", "ok"} }
        \cup { ConfigFile("ok", TRUE, u, p, b, c) : u, p, b, c \in BOOLEAN }

\* lines 152-156: the first subscript that raises KeyError, in evaluation order
NoMissingKey(cfg) == "none"
MissingKey(cfg) ==
    IF ~cfg.username THEN "username"
    ELSE IF ~cfg.password THEN "password"
    ELSE IF ~cfg.base_url THEN "base_url"
    ELSE IF ~cfg.file_path THEN "file_path"
    ELSE "none"

\* the root logger of a fresh interpreter: no handler, level WARNING
Unconfigured == [handlers |-> {}, level |-> "WARNING", format |-> "none"]

LevelNo(level) ==
    CASE level = "INFO" -> 20
      [] level = "WARNING" -> 30
      [] level = "ERROR" -> 40

\* logging.info / logging.error of the module logging: with no handler on the
\* root logger they first call basicConfig(), which adds a StreamHandler
\* (console) with the default format and leaves the level alone
ImplicitConfig(lg) ==
    IF lg.handlers = {}
    THEN [handlers |-> {"console"}, level |-> lg.level, format |-> "default"]
    ELSE lg

\* lines 36-46: logging.basicConfig(level=INFO, format=..., handlers=[file,
\* console]) does nothing when the root logger already has a handler
BasicConfig(lg) ==
    IF lg.handlers = {}
    THEN [handlers |-> {"file", "console"}, level |-> "INFO", format |-> "configured"]
    ELSE lg

\* the sinks a record reaches under the logger state lg
Deliver(rec, lg) ==
    IF LevelNo(rec.level) >= LevelNo(lg.level) THEN lg.handlers ELSE {}

\* a logging call of main: the history and the logger state after it
Emitted(ml, lg, rec) ==
    Append(ml, [rec |-> rec, sinks |-> Deliver(rec, ImplicitConfig(lg))])

\* the root logger when main calls process_csv: load_config has logged
\* (line 14) before setup_logging ran basicConfig (line 36)
LoggingAtCall == BasicConfig(ImplicitConfig(Unconfigured))

----------------------------------------------------------------------------
(* State after TicketUpdater.__init__, before process_csv is called *)

Init ==
    /\ csvFile \in CsvFiles
    /\ errorFile \in {NoDir, NoFile, StaleFile}
    /\ jsonErrIsReqExc \in BOOLEAN
    /\ success_count = 0
    /\ failure_count = 0
    /\ error_tickets = <<>>
    /\ ticket_ids = <<>>
    /\ index = 0
    /\ pc = "start"
    /\ trace = <<>>
    /\ log = <<>>
    /\ fileWrites = 0
    /\ config = FullConfig
    /\ logging = LoggingAtCall
    /\ mainPc = "process_csv"
    /\ mainLog = <<>>

----------------------------------------------------------------------------
(* TicketUpdater.process_csv, lines 98-116: read the identifiers *)

\* line 109: `if not ticket_ids`
NoValidIds(ids) == ids = <<>>

ReadCsv ==
    /\ pc = "start"
    /\ IF ~csvFile.exists
       THEN \* open raises FileNotFoundError, caught at line 134
            /\ log' = Append(log, Error("csv_not_found", <<>>))
            /\ pc' = "done"
            /\ UNCHANGED <<ticket_ids, index>>
       ELSE IF csvFile.rows = <<>>
       THEN \* next(csv_reader) raises StopIteration, caught at line 136
            /\ log' = Append(log, Error("process_error", <<>>))
            /\ pc' = "done"
            /\ UNCHANGED <<ticket_ids, index>>
       ELSE LET ids == ReadIds(csvFile.rows)
            IN  /\ ticket_ids' = ids
                /\ IF NoValidIds(ids)
                   THEN /\ log' = Append(log, Error("no_valid_ids", <<>>))
                        /\ pc' = "done"
                        /\ UNCHANGED index
                   ELSE /\ log' = log \o << Info("total", <<>>, Len(ids), 0),
                                            Info("first", ids[1], 0, 0),
                                            Info("last", ids[Len(ids)], 0, 0) >>
                        /\ index' = 1
                        /\ pc' = "check"
    /\ UNCHANGED <<csvFile, errorFile, jsonErrIsReqExc, success_count,
                   failure_count, error_tickets, trace, fileWrites>>
    /\ UNCHANGED mainVars

----------------------------------------------------------------------------
(* TicketUpdater.update_ticket, called from the loop at lines 118-123 *)

total_tickets == Len(ticket_ids)

\* line 122: `if index < total_tickets`
ShouldSleep(i, n) == i < n

\* the values update_ticket returns (lines 75, 89 and 94)
SkipReturn == "True"
UpdatedReturn == "True"
\* faulty variant of line 94: return True
FailureReturnTrue == "True"
FailureReturn == "False"

\* update_ticket has returned ret: back in the loop at line 122
Returned(tr, lg, ret) ==
    /\ trace' = Append(tr, Event("return", index, NoUrl, NoResp, ret, 0))
    /\ log' = lg
    /\ pc' = IF ShouldSleep(index, total_tickets) THEN "sleep" ELSE "report"

\* lines 90-94: the handler of requests.exceptions.RequestException
Failed(tr, lg) ==
    /\ failure_count' = failure_count + 1
    /\ error_tickets' = Append(error_tickets, ticket_ids[index])
    /\ Returned(tr, Append(lg, Error("update_error", ticket_ids[index])), FailureReturn)
    /\ UNCHANGED success_count

\* an exception that is no RequestException leaves update_ticket and the
\* loop and is caught at line 136
Escaped(tr, lg) ==
    /\ trace' = Append(tr, Event("raise", index, NoUrl, NoResp, "", 0))
    /\ log' = Append(lg, Error("process_error", <<>>))
    /\ pc' = "done"
    /\ UNCHANGED <<success_count, failure_count, error_tickets>>

\* lines 119 and 62-76: progress line, the GET and what follows from its answer
Check(r) ==
    /\ pc = "check"
    /\ LET id == ticket_ids[index]
           lg == Append(log, Info("progress", <<>>, index, total_tickets))
           tr == Append(trace, Event("GET", index, CheckUrl(id), r, "", 0))
       IN  IF RequestFails(r)
           THEN Failed(tr, lg)
           ELSE IF r.body = "invalid"
           THEN \* check_response.json() raises JSONDecodeError
                IF jsonErrIsReqExc THEN Failed(tr, lg) ELSE Escaped(tr, lg)
           ELSE IF r.body # "object"
           THEN \* AttributeError from the .get chain of line 70
                Escaped(tr, lg)
           ELSE IF IsSatisfied(r.status)
           THEN /\ Returned(tr, Append(lg, Info("skipped", id, 0, 0)), SkipReturn)
                /\ UNCHANGED <<success_count, failure_count, error_tickets>>
           ELSE /\ trace' = tr
                /\ log' = lg
                /\ pc' = "update"
                /\ UNCHANGED <<success_count, failure_count, error_tickets>>
    /\ UNCHANGED <<csvFile, errorFile, jsonErrIsReqExc, ticket_ids, index, fileWrites>>
    /\ UNCHANGED mainVars

\* lines 78-89: the PUT and what follows from its answer
Update(r) ==
    /\ pc = "update"
    /\ LET id == ticket_ids[index]
           tr == Append(trace, Event("PUT", index, UpdateUrl(id), r, "", 0))
       IN  IF RequestFails(r)
           THEN Failed(tr, log)
           ELSE /\ success_count' = success_count + 1
                /\ Returned(tr, Append(log, Info("updated", id, 0, 0)), UpdatedReturn)
                /\ UNCHANGED <<failure_count, error_tickets>>
    /\ UNCHANGED <<csvFile, errorFile, jsonErrIsReqExc, ticket_ids, index, fileWrites>>
    /\ UNCHANGED mainVars

\* line 123: time.sleep(delay), then the next iteration
Sleep ==
    /\ pc = "sleep"
    /\ trace' = Append(trace, Event("sleep", index, NoUrl, NoResp, "", Delay))
    /\ index' = index + 1
    /\ pc' = "check"
    /\ UNCHANGED <<csvFile, errorFile, jsonErrIsReqExc, success_count, failure_count,
                   error_tickets, ticket_ids, log, fileWrites>>
    /\ UNCHANGED mainVars

----------------------------------------------------------------------------
(* lines 125-132: the failure report and the summary *)

\* '\n'.join(self.error_tickets)
RECURSIVE Join(_)
Join(ids) ==
    IF ids = <<>> THEN <<>>
    ELSE IF Len(ids) = 1 THEN ids[1]
    ELSE ids[1] \o <<"\n">> \o Join(Tail(ids))

\* line 126: `if self.error_tickets`
\* faulty variant: the report is written unconditionally
AlwaysReport(errs) == TRUE
NeedsReport(errs) == errs # <<>>

WriteReport ==
    /\ pc = "report"
    /\ IF NeedsReport(error_tickets)
       THEN IF errorFile.dir
            THEN /\ errorFile' = Written(Join(error_tickets))
                 /\ fileWrites' = fileWrites + 1
                 /\ log' = Append(log, Info("report_written", <<>>, 0, 0))
                 /\ pc' = "summary"
            ELSE \* open raises FileNotFoundError, caught at line 134
                 /\ log' = Append(log, Error("csv_not_found", <<>>))
                 /\ pc' = "done"
                 /\ UNCHANGED <<errorFile, fileWrites>>
       ELSE /\ pc' = "summary"
            /\ UNCHANGED <<errorFile, fileWrites, log>>
    /\ UNCHANGED <<csvFile, jsonErrIsReqExc, success_count, failure_count,
                   error_tickets, ticket_ids, index, trace>>
    /\ UNCHANGED mainVars

\* line 132
LogSummary ==
    /\ pc = "summary"
    /\ log' = Append(log, Info("summary", <<>>, success_count, failure_count))
    /\ pc' = "done"
    /\ UNCHANGED <<csvFile, errorFile, jsonErrIsReqExc, success_count, failure_count,
                   error_tickets, ticket_ids, index, trace, fileWrites>>
    /\ UNCHANGED mainVars

----------------------------------------------------------------------------

Next ==
    \/ ReadCsv
    \/ \E r \in GetResponses : Check(r)
    \/ \E r \in PutResponses : Update(r)
    \/ Sleep
    \/ WriteReport
    \/ LogSummary

Spec == Init /\ [][Next]_vars

----------------------------------------------------------------------------
(* A TicketUpdater whose process_csv is called again *)

MaxCalls == 2

Calls == 1 + Cardinality({ j \in DOMAIN trace : trace[j].op = "call" })

\* lines 96-99: process_csv is entered again on the same object; ticket_ids
\* is a fresh local list, the attributes of self keep their values
CallAgain ==
    /\ pc = "done"
    /\ Calls < MaxCalls
    /\ trace' = Append(trace, Event("call", 0, NoUrl, NoResp, "", 0))
    /\ ticket_ids' = <<>>
    /\ index' = 0
    /\ pc' = "start"
    /\ UNCHANGED <<csvFile, errorFile, jsonErrIsReqExc, success_count, failure_count,
                   error_tickets, log, fileWrites>>
    /\ UNCHANGED mainVars

\* the object of Init, in an installation whose logs directory exists and
\* whose requests library raises JSONDecodeError as a RequestException
InitReuse ==
    /\ Init
    /\ errorFile.dir
    /\ jsonErrIsReqExc

NextReuse ==
    \/ Next
    \/ CallAgain

SpecReuse == InitReuse /\ [][NextReuse]_vars

----------------------------------------------------------------------------
(* main, lines 139-160, with load_config and setup_logging *)

\* line 159: `except Exception` catches every exception raised in main
ExceptionClasses ==
    { "FileNotFoundError", "ValueError", "Exception", "AttributeError", "KeyError",
      "OSError" }
MainCatchesOSError(exc) == exc \in {"FileNotFoundError", "OSError"}
MainCatches(exc) == exc \in ExceptionClasses

\* exc is raised in the try block of main: lines 159-160, then main returns
Raised(exc, ml, lg) ==
    IF MainCatches(exc)
    THEN /\ mainLog' = Emitted(ml, lg, Error("unexpected", <<>>))
         /\ logging' = ImplicitConfig(lg)
         /\ mainPc' = "returned"
    ELSE /\ mainLog' = ml
         /\ logging' = lg
         /\ mainPc' = "crashed"

\* lines 142-145: load_config (lines 10-21) and the three config.get calls
LoadConfig ==
    /\ mainPc = "load_config"
    /\ IF config.file = "missing" THEN Raised("FileNotFoundError", mainLog, logging)
       ELSE IF config.file = "malformed" THEN Raised("ValueError", mainLog, logging)
       ELSE IF config.file = "unreadable" THEN Raised("Exception", mainLog, logging)
       ELSE LET ml == Emitted(mainLog, logging, Info("config_loaded", <<>>, 0, 0))
                lg == ImplicitConfig(logging)
            IN  IF ~config.object
                THEN \* config.get raises AttributeError
                     Raised("AttributeError", ml, lg)
                ELSE /\ mainLog' = ml
                     /\ logging' = lg
                     /\ mainPc' = "setup_logging"
    /\ UNCHANGED <<csvFile, errorFile, jsonErrIsReqExc, success_count, failure_count,
                   error_tickets, ticket_ids, index, pc, trace, log, fileWrites, config>>

\* lines 148-149: setup_logging (lines 23-49); ok: os.makedirs and the
\* FileHandler can create the directory and the log file
SetupLogging(ok) ==
    /\ mainPc = "setup_logging"
    /\ IF ~ok
       THEN Raised("OSError", mainLog, logging)
       ELSE LET lg == BasicConfig(logging)
                ml == Emitted(mainLog, lg, Info("log_file", <<>>, 0, 0))
            IN  /\ mainLog' = Emitted(ml, lg, Info("program_start", <<>>, 0, 0))
                /\ logging' = ImplicitConfig(lg)
                /\ mainPc' = "construct"
    /\ UNCHANGED <<csvFile, errorFile, jsonErrIsReqExc, success_count, failure_count,
                   error_tickets, ticket_ids, index, pc, trace, log, fileWrites, config>>

\* lines 151-156: TicketUpdater(...) (lines 52-59) and the call of process_csv
Construct ==
    /\ mainPc = "construct"
    /\ IF MissingKey(config) # "none"
       THEN /\ Raised("KeyError", mainLog, logging)
            /\ UNCHANGED <<success_count, failure_count, error_tickets, pc>>
       ELSE /\ success_count' = 0
            /\ failure_count' = 0
            /\ error_tickets' = <<>>
            /\ pc' = "start"
            /\ mainPc' = "process_csv"
            /\ UNCHANGED <<logging, mainLog>>
    /\ UNCHANGED <<csvFile, errorFile, jsonErrIsReqExc, ticket_ids, index, trace, log,
                   fileWrites, config>>

\* line 158: process_csv has returned
Finish ==
    /\ mainPc = "process_csv"
    /\ pc = "done"
    /\ mainLog' = Emitted(mainLog, logging, Info("program_done", <<>>, 0, 0))
    /\ logging' = ImplicitConfig(logging)
    /\ mainPc' = "returned"
    /\ UNCHANGED <<csvFile, errorFile, jsonErrIsReqExc, success_count, failure_count,
                   error_tickets, ticket_ids, index, pc, trace, log, fileWrites, config>>

\* the process at the start of main
InitMain ==
    /\ csvFile \in CsvFiles
    /\ errorFile \in {NoDir, NoFile, StaleFile}
    /\ jsonErrIsReqExc \in BOOLEAN
    /\ success_count = 0
    /\ failure_count = 0
    /\ error_tickets = <<>>
    /\ ticket_ids = <<>>
    /\ index = 0
    /\ pc = "idle"
    /\ trace = <<>>
    /\ log = <<>>
    /\ fileWrites = 0
    /\ config \in Configs
    /\ logging = Unconfigured
    /\ mainPc = "load_config"
    /\ mainLog = <<>>

NextMain ==
    \/ LoadConfig
    \/ \E ok \in BOOLEAN : SetupLogging(ok)
    \/ Construct
    \/ Next
    \/ Finish

SpecMain == InitMain /\ [][NextMain]_vars

----------------------------------------------------------------------------
(* Vocabulary of the properties, read off the histories *)

IsRequest(e) == e.op \in {"GET", "PUT"}

\* positions in trace of the requests with method op sent for identifier i
Requests(op, i) == { j \in DOMAIN trace : trace[j].op = op /\ trace[j].idx = i }

\* positions in trace of the ends of update_ticket (return or raise) for i
Ends(i) == { j \in DOMAIN trace : trace[j].op \in {"return", "raise"} /\ trace[j].idx = i }

Sleeps == { j \in DOMAIN trace : trace[j].op = "sleep" }

Logged(event) == \E j \in DOMAIN log : log[j].event = event

\* the answer is a 2xx response
Is2xx(r) == r.net = "ok" /\ r.code >= 200 /\ r.code <= 299

\* a transport error or a response that is not 2xx
FailedAnswer(r) == r.net = "error" \/ (r.net = "ok" /\ ~Is2xx(r))

\* the identifiers whose read or write call failed
FailedIdx ==
    { i \in DOMAIN ticket_ids :
        \E j \in DOMAIN trace :
            IsRequest(trace[j]) /\ trace[j].idx = i /\ FailedAnswer(trace[j].resp) }

\* the answer makes the call or raise_for_status raise a RequestException,
\* or its body is no JSON and the library raises that as a RequestException
Caught(r) ==
    \/ r.net = "error"
    \/ r.net = "ok" /\ r.code >= 400 /\ r.code <= 599
    \/ r.net = "ok" /\ r.code < 400 /\ r.body = "invalid" /\ jsonErrIsReqExc

\* the identifiers for which update_ticket caught a RequestException
CaughtIdx ==
    { i \in DOMAIN ticket_ids :
        \E j \in DOMAIN trace :
            IsRequest(trace[j]) /\ trace[j].idx = i /\ Caught(trace[j].resp) }

\* the identifiers at the positions S, in file order
IdsAt(S) ==
    LET F[i \in 0..Len(ticket_ids)] ==
            IF i = 0 THEN <<>>
            ELSE IF i \in S THEN Append(F[i - 1], ticket_ids[i]) ELSE F[i - 1]
    IN  F[Len(ticket_ids)]

\* the lines of a text
RECURSIVE SplitLines(_, _)
SplitLines(text, line) ==
    IF text = <<>> THEN <<line>>
    ELSE IF Head(text) = "\n" THEN <<line>> \o SplitLines(Tail(text), <<>>)
    ELSE SplitLines(Tail(text), Append(line, Head(text)))

Lines(text) == SplitLines(text, <<>>)

\* the loop of lines 118-123 has run over every identifier
LoopCompleted ==
    /\ ticket_ids # <<>>
    /\ \A i \in DOMAIN ticket_ids : \E j \in Ends(i) : trace[j].op = "return"

----------------------------------------------------------------------------
(* C1 *)

\* C1: when process_csv has finished a non-empty list of n identifiers of
\* which exactly k failed (transport error or non-2xx answer on the read or
\* the write call), the report file holds exactly those k identifiers, one
\* per line, in the order met, and the summary line reports success = n - k
\* and failure = k.  Stated for the runs that reach the summary line.
C1_ReportAndSummary ==
    (pc = "done" /\ Logged("summary")) =>
        LET n == Len(ticket_ids)
            k == Cardinality(FailedIdx)
        IN  /\ k > 0 => (errorFile.exists /\ Lines(errorFile.text) = IdsAt(FailedIdx))
            /\ \E j \in DOMAIN log :
                 log[j] = Info("summary", <<>>, n - k, k)

----------------------------------------------------------------------------
(* C2 *)

\* C2: every transport error and every non-2xx answer to the read or the
\* write call of an identifier is handled inside update_ticket as a failure
\* of that ticket: update_ticket returns right after it, the identifier is in
\* the error list, and the batch goes on (sleep, or the end of the loop).
C2_FailureIsLocal ==
    \A j \in DOMAIN trace :
        (IsRequest(trace[j]) /\ FailedAnswer(trace[j].resp) /\ Ends(trace[j].idx) # {}) =>
            /\ trace[j + 1].op = "return"
            /\ trace[j + 1].idx = trace[j].idx
            /\ \E m \in DOMAIN error_tickets : error_tickets[m] = ticket_ids[trace[j].idx]
            /\ failure_count >= Cardinality({ i \in FailedIdx : i <= trace[j].idx })

----------------------------------------------------------------------------
(* C3, C4 *)

\* the read answer reports send_to_dxdb_statuscode = v: a 2xx answer whose
\* body is a JSON object with ticket.custom_fields readable
Reports(r, v) == Is2xx(r) /\ r.body = "object" /\ r.status = v

\* the read answer reports a value other than 200, or lacks the field
ReportsOther(r) == Is2xx(r) /\ r.body = "object" /\ r.status # JInt(200)

\* C3: after a read answer that reports send_to_dxdb_statuscode = 200,
\* update_ticket sends no PUT for that identifier and returns True at once;
\* the step leaves failure_count and the error list as they were.
C3_SatisfiedIsSkipped ==
    /\ \A j \in DOMAIN trace :
         (trace[j].op = "GET" /\ Reports(trace[j].resp, JInt(200))) =>
            /\ Requests("PUT", trace[j].idx) = {}
            /\ j + 1 \in DOMAIN trace
            /\ trace[j + 1].op = "return"
            /\ trace[j + 1].idx = trace[j].idx
            /\ trace[j + 1].ret = "True"
    /\ failure_count = Cardinality(CaughtIdx)
    /\ error_tickets = IdsAt(CaughtIdx)

C3_Witness ==
    \E j \in DOMAIN trace :
        /\ trace[j].op = "GET"
        /\ Reports(trace[j].resp, JInt(200))
        /\ j > 1
        /\ pc = "done"
        /\ Logged("summary")

\* C4: after a read answer that reports another value, or no value, exactly
\* one PUT is sent for that identifier, to {base_url}/{id}/?bypass_mandatory=true,
\* as the next request.
C4_OtherIsUpdatedOnce ==
    \A j \in DOMAIN trace :
        (trace[j].op = "GET" /\ ReportsOther(trace[j].resp)) =>
            IF j = Len(trace)
            THEN pc = "update" /\ Requests("PUT", trace[j].idx) = {}
            ELSE /\ Requests("PUT", trace[j].idx) = {j + 1}
                 /\ trace[j + 1].url =
                        [base |-> BaseUrl, id |-> ticket_ids[trace[j].idx],
                         tail |-> "/?bypass_mandatory=true"]

C4_Witness ==
    /\ pc = "done"
    /\ \E j \in DOMAIN trace :
         /\ trace[j].op = "GET"
         /\ Reports(trace[j].resp, JNone)
         /\ Requests("PUT", trace[j].idx) = {j + 1}
    /\ \E j \in DOMAIN trace :
         /\ trace[j].op = "GET"
         /\ Reports(trace[j].resp, JStr(200))
         /\ Requests("PUT", trace[j].idx) = {j + 1}

----------------------------------------------------------------------------
(* C5 *)

\* C5: for a list of n >= 1 identifiers process_csv sleeps exactly n - 1
\* times, each time for the delay: once between the end of update_ticket of
\* identifier i and the first request of identifier i + 1, never after the
\* last identifier.
C5_SleepsBetween ==
    (pc = "done" /\ ticket_ids # <<>>) =>
        /\ Cardinality(Sleeps) = Len(ticket_ids) - 1
        /\ \A j \in Sleeps :
             /\ trace[j].secs = Delay
             /\ trace[j].idx < Len(ticket_ids)
             /\ j > 1 /\ trace[j - 1].op = "return" /\ trace[j - 1].idx = trace[j].idx
             /\ j < Len(trace) /\ trace[j + 1].op = "GET" /\ trace[j + 1].idx = trace[j].idx + 1

----------------------------------------------------------------------------
(* C6, C7 *)

NonBlank(cell) == { i \in DOMAIN cell : cell[i] \notin {" ", "\t", "\n", "\r"} }

SetMin(S) == CHOOSE x \in S : \A y \in S : x <= y
SetMax(S) == CHOOSE x \in S : \A y \in S : x >= y

\* the cell without its leading and trailing whitespace
Trimmed(cell) ==
    IF NonBlank(cell) = {} THEN <<>>
    ELSE SubSeq(cell, SetMin(NonBlank(cell)), SetMax(NonBlank(cell)))

\* the data rows of the file (all rows but the header)
DataRows == Tail(csvFile.rows)

\* the data rows that carry an identifier
IdRows == { i \in DOMAIN DataRows : DataRows[i] # <<>> /\ NonBlank(DataRows[i][1]) # {} }

ExpectedIds ==
    LET F[i \in 0..Len(DataRows)] ==
            IF i = 0 THEN <<>>
            ELSE IF i \in IdRows THEN Append(F[i - 1], Trimmed(DataRows[i][1]))
            ELSE F[i - 1]
    IN  F[Len(DataRows)]

HasHeader == csvFile.exists /\ csvFile.rows # <<>>

\* C6: when the CSV has a header and no data row carries an identifier,
\* process_csv logs one error and ends: no request, no sleep, no report.
C6_EmptyListDoesNothing ==
    (HasHeader /\ IdRows = {}) =>
        /\ trace = <<>>
        /\ fileWrites = 0
        /\ errorFile \in {NoDir, NoFile, StaleFile}
        /\ pc \in {"start", "done"}
        /\ pc = "done" => log = << Error("no_valid_ids", <<>>) >>

C6_Witness ==
    /\ HasHeader
    /\ IdRows = {}
    /\ Len(DataRows) = 2
    /\ DataRows[1] # <<>>
    /\ pc = "done"
    /\ errorFile = StaleFile

\* C7: the identifier list process_csv builds from a CSV with a header is the
\* trimmed first columns of the data rows whose trimmed first column is not
\* empty, in file order.
C7_IdsAreTrimmedFirstColumns ==
    (HasHeader /\ pc # "start") => ticket_ids = ExpectedIds

C7_Witness ==
    /\ pc # "start"
    /\ HasHeader
    /\ Len(DataRows) = 2
    /\ DataRows[1] = << <<" ">>, <<"b">> >>
    /\ ticket_ids = << <<"a", " ", "b">> >>

----------------------------------------------------------------------------
(* C8, C9 *)

\* C8: a run of process_csv over a non-empty list whose loop has processed
\* every identifier ends with the summary line logged, also when the error
\* list is not empty and the report is written first.
C8_SummaryAfterLoop ==
    (pc = "done" /\ LoopCompleted) => Logged("summary")

\* C9: a step changes the report file only in a run in which a ticket
\* failed; while no ticket has failed the file is not created, truncated or
\* modified.
C9_ReportOnlyOnFailure ==
    [][ (failure_count' = 0 \/ error_tickets' = <<>>)
            => (errorFile' = errorFile /\ fileWrites' = fileWrites) ]_vars

C9_Witness ==
    /\ pc = "done"
    /\ Logged("summary")
    /\ failure_count = 0
    /\ Len(ticket_ids) = 2
    /\ errorFile = StaleFile

----------------------------------------------------------------------------
(* C10 *)

\* C10 as stated: every return of update_ticket, the returns of the failure
\* path included, returns True.
C10_AlwaysReturnsTrue ==
    \A j \in DOMAIN trace : trace[j].op = "return" => trace[j].ret = "True"

\* C10, amended: update_ticket returns True after a successful write and
\* after the short-circuit, and False after a request failure it has caught,
\* logged and counted.
C10_ReturnTellsFailure ==
    \A j \in DOMAIN trace :
        trace[j].op = "return" =>
            /\ j > 1
            /\ IsRequest(trace[j - 1])
            /\ trace[j - 1].idx = trace[j].idx
            /\ IF Caught(trace[j - 1].resp)
               THEN /\ trace[j].ret = "False"
                    /\ trace[j].idx \in CaughtIdx
                    /\ \E m \in DOMAIN log :
                          log[m] = Error("update_error", ticket_ids[trace[j].idx])
               ELSE /\ trace[j].ret = "True"
                    /\ \/ trace[j - 1].op = "PUT"
                       \/ trace[j - 1].op = "GET" /\ Reports(trace[j - 1].resp, JInt(200))

C10_Witness ==
    /\ pc = "done"
    /\ \E j \in DOMAIN trace : trace[j].op = "return" /\ trace[j].ret = "False"
    /\ \E j \in DOMAIN trace :
          trace[j].op = "return" /\ trace[j].ret = "True" /\ trace[j - 1].op = "PUT"

----------------------------------------------------------------------------
(* C11 *)

LastMainRecord == mainLog[Len(mainLog)].rec

\* C11: with a configuration error (config.json missing, malformed or
\* unreadable, not an object, or one of the four keys missing) main never
\* reaches process_csv: the CSV is not read, no request is sent, and main
\* ends by logging the error.
C11_ConfigErrorIsFatal ==
    config # FullConfig =>
        /\ pc = "idle"
        /\ ticket_ids = <<>>
        /\ trace = <<>>
        /\ log = <<>>
        /\ mainPc \in {"load_config", "setup_logging", "construct", "returned"}
        /\ mainPc # "returned" => ENABLED NextMain
        /\ mainPc = "returned" =>
              /\ LastMainRecord = Error("unexpected", <<>>)
              /\ mainLog[Len(mainLog)].sinks # {}

C11_Witness ==
    /\ config = ConfigFile("ok", TRUE, TRUE, TRUE, TRUE, FALSE)
    /\ mainPc = "returned"
    /\ Len(mainLog) = 4

----------------------------------------------------------------------------
(* C12 *)

BothSinks == {"file", "console"}

\* C12: every record logged during a run of main, from its start to the
\* completion line, reaches the log file and the console.  Stated for the
\* runs that reach the completion line.
C12_EveryRecordReachesBothSinks ==
    (mainPc = "returned" /\ LastMainRecord.event = "program_done") =>
        /\ \A j \in DOMAIN mainLog : mainLog[j].sinks = BothSinks
        /\ \A j \in DOMAIN log : Deliver(log[j], logging) = BothSinks

----------------------------------------------------------------------------
(* C13 *)

LoggedError(event) ==
    \E j \in DOMAIN log :
        log[j].level = "ERROR" /\ log[j].event = event /\ Deliver(log[j], logging) # {}

\* C13: main never ends by an exception: it goes on until it returns, and
\* when it has returned every failure of the run has been logged as an error
\* (configuration or start-up error, missing or empty CSV, empty list,
\* per-ticket failure, aborted batch, failed write of the report).
C13_NoFailureEscapesMain ==
    /\ mainPc # "crashed"
    /\ mainPc # "returned" => ENABLED NextMain
    /\ mainPc = "returned" =>
          /\ pc \in {"idle", "done"}
          /\ pc = "idle" =>
                /\ LastMainRecord = Error("unexpected", <<>>)
                /\ mainLog[Len(mainLog)].sinks # {}
          /\ pc = "done" =>
                /\ LastMainRecord.event = "program_done"
                /\ ~csvFile.exists => LoggedError("csv_not_found")
                /\ (csvFile.exists /\ csvFile.rows = <<>>) => LoggedError("process_error")
                /\ (HasHeader /\ IdRows = {}) => LoggedError("no_valid_ids")
                /\ \A i \in CaughtIdx :
                      \E j \in DOMAIN log :
                         log[j] = Error("update_error", ticket_ids[i])
                /\ (\E j \in DOMAIN trace : trace[j].op = "raise")
                      => LoggedError("process_error")
                /\ (LoopCompleted /\ error_tickets # <<>> /\ ~errorFile.dir)
                      => LoggedError("csv_not_found")

C13_Witness ==
    /\ mainPc = "returned"
    /\ LoopCompleted
    /\ Len(error_tickets) = 2
    /\ ~errorFile.dir

----------------------------------------------------------------------------
(* C14 *)

\* C14: for every identifier at most one GET and at most one PUT are sent;
\* a PUT follows a GET of the same identifier that was answered 2xx with a
\* status other than 200; after update_ticket has ended for the identifier
\* no request is sent for it.
C14_OneReadOneWrite ==
    \A i \in DOMAIN ticket_ids :
        /\ Cardinality(Requests("GET", i)) <= 1
        /\ Cardinality(Requests("PUT", i)) <= 1
        /\ \A p \in Requests("PUT", i) :
              \E g \in Requests("GET", i) : g < p /\ ReportsOther(trace[g].resp)
        /\ \A e \in Ends(i) :
              \A j \in DOMAIN trace :
                 (IsRequest(trace[j]) /\ trace[j].idx = i) => j < e

----------------------------------------------------------------------------
(* C15 *)

\* C15: update_ticket recovers from every failure of a ticket.  Stated for
\* the 2xx read answers the claim names (body not a JSON object, ticket or
\* custom_fields null): update_ticket returns after such an answer, and a
\* run that met one ends only after the loop has run over every identifier.
C15_RecoversFromAnyFailure ==
    \A j \in DOMAIN trace :
        (trace[j].op = "GET" /\ Is2xx(trace[j].resp) /\ trace[j].resp.body = "nullfield")
            => /\ j + 1 \in DOMAIN trace
               /\ trace[j + 1].op = "return"
               /\ pc = "done" => LoopCompleted

----------------------------------------------------------------------------
(* C17 *)

ReturnedIdx ==
    { i \in DOMAIN ticket_ids : \E j \in Ends(i) : trace[j].op = "return" }

\* C17: every update_ticket call that returns adds one to exactly one of
\* success_count and failure_count, so the two add up to the number of calls
\* that have returned, and failure_count is the length of the error list.
C17_CountersCountCalls ==
    /\ success_count + failure_count = Cardinality(ReturnedIdx)
    /\ failure_count = Len(error_tickets)

----------------------------------------------------------------------------
(* C16 *)

\* C16: whenever process_csv starts, the first time and every later time on
\* the same TicketUpdater, success_count and failure_count are 0 and the
\* error list is empty.
C16_ResultEmptyAtStart ==
    pc = "start" =>
        /\ success_count = 0
        /\ failure_count = 0
        /\ error_tickets = <<>>

====
